---------------------------- MODULE Spec2Model ----------------------------
(***************************************************************************)
(* Model of src/main.py: the /calendar handler of the economic calendar    *)
(* service.  One request runs get_economic_calendar, which awaits          *)
(* fetch_economic_calendar_data (one HTTP GET, then the per-item loop and  *)
(* the sort) and then format_with_ai (an optional call to the summarizer   *)
(* with a rule-based fallback).                                            *)
(*                                                                         *)
(* Python strings are TLA+ strings; a dict is a function whose DOMAIN is   *)
(* its key set; a call that may raise returns a result record              *)
(* [ok |-> TRUE, val |-> v] or [ok |-> FALSE, exc |-> name].               *)
(* The emoji of the source are written as ASCII tokens.                    *)
(***************************************************************************)
EXTENDS Integers, Sequences, FiniteSets, TLC

VARIABLES
    client,     \* whether the module-level OpenAI client exists (main.py:44)
    upstream,   \* what the HTTP GET of this day yields
    today,      \* now.strftime("%Y-%m-%d") of the request (main.py:121)
    pc,         \* position of the handler coroutine
    events,     \* the list fetch_economic_calendar_data returned
    path,       \* which branch of format_with_ai produced the text
    response,   \* what get_economic_calendar returned
    prev,       \* response and path of the previous request
    calls,      \* number of requests started
    arg,        \* the dict determine_impact is applied to
    result      \* what determine_impact returned ("" before the call)

vars == <<client, upstream, today, pc, events, path, response, prev, calls,
          arg, result>>

---------------------------------------------------------------------------
(* Bounds of the model *)

MaxItems == 2
MaxCalls == 2
MaxWords == 2

---------------------------------------------------------------------------
(* Result of a call that may raise *)

Ok(v) == [ok |-> TRUE, val |-> v]
Raise(e) == [ok |-> FALSE, exc |-> e]

---------------------------------------------------------------------------
(* Python str operations *)

CharAt(s, i) == SubSeq(s, i, i)

LowerCase == "abcdefghijklmnopqrstuvwxyz"
UpperCase == "ABCDEFGHIJKLMNOPQRSTUVWXYZ"

\* str.upper() on the lower-case letters
UpperOf ==
    [c \in {CharAt(LowerCase, i) : i \in 1..26} |->
        CharAt(UpperCase, CHOOSE i \in 1..26 : CharAt(LowerCase, i) = c)]

\* str.upper() on one character
UpperChar(c) == IF c \in DOMAIN UpperOf THEN UpperOf[c] ELSE c

RECURSIVE Upper(_)
\* str.upper()
Upper(s) == IF Len(s) = 0 THEN "" ELSE UpperChar(CharAt(s, 1)) \o Upper(Tail(s))

\* sub in s
Contains(sub, s) ==
    \E i \in 1..(Len(s) - Len(sub) + 1) : SubSeq(s, i, i + Len(sub) - 1) = sub

RECURSIVE ReplaceDoubleSpace(_)
\* s.replace('  ', ' '): non-overlapping occurrences, left to right
ReplaceDoubleSpace(s) ==
    IF Len(s) < 2 THEN s
    ELSE IF SubSeq(s, 1, 2) = "  "
         THEN " " \o ReplaceDoubleSpace(SubSeq(s, 3, Len(s)))
         ELSE CharAt(s, 1) \o ReplaceDoubleSpace(Tail(s))

IsSpace(c) == c \in {" ", "\t", "\n"}

RECURSIVE LStrip(_)
LStrip(s) == IF Len(s) > 0 /\ IsSpace(CharAt(s, 1)) THEN LStrip(Tail(s)) ELSE s

RECURSIVE RStrip(_)
RStrip(s) ==
    IF Len(s) > 0 /\ IsSpace(CharAt(s, Len(s)))
    THEN RStrip(SubSeq(s, 1, Len(s) - 1))
    ELSE s

\* str.strip()
Strip(s) == RStrip(LStrip(s))

\* s[:n]
Prefix(s, n) == SubSeq(s, 1, IF Len(s) < n THEN Len(s) ELSE n)

\* The characters of the model's strings in code-point order, and the rank
\* of each: ord(c) up to an order-preserving renumbering
OrdTable == " %()-0123456789:ABCDEFGHIJKLMNOPQRSTUVWXYZabcdefghijklmnopqrstuvwxyz|"
OrdOf ==
    [c \in {CharAt(OrdTable, i) : i \in 1..Len(OrdTable)} |->
        CHOOSE i \in 1..Len(OrdTable) : CharAt(OrdTable, i) = c]
Ord(c) == OrdOf[c]

RECURSIVE StrLess(_, _)
\* a < b on str: lexicographic by code point
StrLess(a, b) ==
    IF Len(b) = 0 THEN FALSE
    ELSE IF Len(a) = 0 THEN TRUE
    ELSE IF CharAt(a, 1) = CharAt(b, 1) THEN StrLess(Tail(a), Tail(b))
    ELSE Ord(CharAt(a, 1)) < Ord(CharAt(b, 1))

\* dict.get(key, default)
Get(d, k, default) == IF k \in DOMAIN d THEN d[k] ELSE default

---------------------------------------------------------------------------
(* datetime.strptime(s, "%Y-%m-%dT%H:%M:%S") and strftime("%H:%M") *)

Digits == "0123456789"
DigitOf == [c \in {CharAt(Digits, i) : i \in 1..10} |->
               (CHOOSE i \in 1..10 : CharAt(Digits, i) = c) - 1]
IsDigit(c) == c \in DOMAIN DigitOf
DigitVal(c) == DigitOf[c]
Num2(s, i) == 10 * DigitVal(CharAt(s, i)) + DigitVal(CharAt(s, i + 1))

\* The fields are taken at their zero-padded width, which every date string
\* of the upstream has.
DateShapeOk(s) ==
    /\ Len(s) = 19
    /\ \A i \in {1, 2, 3, 4, 6, 7, 9, 10, 12, 13, 15, 16, 18, 19} : IsDigit(CharAt(s, i))
    /\ CharAt(s, 5) = "-" /\ CharAt(s, 8) = "-"
    /\ CharAt(s, 11) = "T"
    /\ CharAt(s, 14) = ":" /\ CharAt(s, 17) = ":"

Strptime(s) ==
    IF /\ DateShapeOk(s)
       /\ Num2(s, 6) \in 1..12 /\ Num2(s, 9) \in 1..31
       /\ Num2(s, 12) \in 0..23 /\ Num2(s, 15) \in 0..59 /\ Num2(s, 18) \in 0..61
    THEN Ok([ymd |-> SubSeq(s, 1, 10), hour |-> Num2(s, 12), minute |-> Num2(s, 15)])
    ELSE Raise("ValueError")

Pad2(n) == CharAt(Digits, (n \div 10) + 1) \o CharAt(Digits, (n % 10) + 1)

\* event_time.strftime("%H:%M")
StrftimeHM(t) == Pad2(t.hour) \o ":" \o Pad2(t.minute)

---------------------------------------------------------------------------
(* determine_impact, main.py:101-115 *)

RED == "(red)"
YELLOW == "(yellow)"
GREEN == "(green)"

high_impact == <<"NFP", "CPI", "GDP", "PMI", "Rate", "Employment", "Interest">>
medium_impact == <<"Retail", "Trade", "Manufacturing", "Consumer", "Production">>

\* term.upper() of each term of a list
UpperTerms(terms) == [i \in DOMAIN terms |-> Upper(terms[i])]
HIGH_IMPACT == UpperTerms(high_impact)
MEDIUM_IMPACT == UpperTerms(medium_impact)

\* Faulty variant: the medium-impact terms are checked first
determine_impact_medium_first(event) ==
    LET event_name == Upper(Get(event, "Event", ""))
    IN  IF \E i \in DOMAIN MEDIUM_IMPACT : Contains(MEDIUM_IMPACT[i], event_name)
        THEN YELLOW
        ELSE IF \E i \in DOMAIN HIGH_IMPACT : Contains(HIGH_IMPACT[i], event_name)
        THEN RED
        ELSE GREEN

determine_impact(event) ==
    LET event_name == Upper(Get(event, "Event", ""))
    IN  IF \E i \in DOMAIN HIGH_IMPACT : Contains(HIGH_IMPACT[i], event_name)
        THEN RED
        ELSE IF \E i \in DOMAIN MEDIUM_IMPACT : Contains(MEDIUM_IMPACT[i], event_name)
        THEN YELLOW
        ELSE GREEN

---------------------------------------------------------------------------
(* fetch_economic_calendar_data, main.py:117-208 *)

\* main.py:143-166
CurrencyOf(country) ==
    IF Contains("United States", country) THEN "USD"
    ELSE IF \/ Contains("Euro Area", country) \/ Contains("European Union", country)
            \/ Contains("Germany", country) \/ Contains("France", country) THEN "EUR"
    ELSE IF Contains("United Kingdom", country) THEN "GBP"
    ELSE IF Contains("Japan", country) THEN "JPY"
    ELSE IF Contains("Australia", country) THEN "AUD"
    ELSE IF Contains("Canada", country) THEN "CAD"
    ELSE IF Contains("Switzerland", country) THEN "CHF"
    ELSE IF Contains("New Zealand", country) THEN "NZD"
    ELSE Upper(Prefix(country, 3))

\* The body of the per-item try block, main.py:141-188
ProcessItem(event) ==
    LET country == Get(event, "Country", "")
        currency == CurrencyOf(country)
    IN  IF "Date" \notin DOMAIN event THEN Raise("KeyError")
        ELSE LET event_time == Strptime(event["Date"])
             IN  IF ~event_time.ok THEN event_time
                 ELSE IF "Event" \notin DOMAIN event THEN Raise("KeyError")
                 ELSE Ok([time     |-> StrftimeHM(event_time.val),
                          currency |-> currency,
                          impact   |-> determine_impact(event),
                          event    |-> Strip(ReplaceDoubleSpace(event["Event"])),
                          actual   |-> Get(event, "Actual", "N/A"),
                          forecast |-> Get(event, "Forecast", "N/A")])

\* Faulty variant: an item that raises discards the events collected so far
LoopStep_discarding(acc, event, isDict) ==
    LET r == IF isDict THEN ProcessItem(event) ELSE Raise("AttributeError")
    IN  IF r.ok THEN Append(acc, r.val) ELSE <<>>

\* One pass of the loop body with its except/continue, main.py:140-197.
\* An item that is not a dict raises at event.get.
LoopStep(acc, event, isDict) ==
    LET r == IF isDict THEN ProcessItem(event) ELSE Raise("AttributeError")
    IN  IF r.ok THEN Append(acc, r.val) ELSE acc

RECURSIVE LoopFrom(_, _, _, _)
LoopFrom(acc, data, isDict, i) ==
    IF i > Len(data) THEN acc
    ELSE LoopFrom(LoopStep(acc, data[i], isDict), data, isDict, i + 1)

\* for event in data: ... , main.py:139-197
Loop(data, isDict) == LoopFrom(<<>>, data, isDict, 1)

RECURSIVE InsertByTime_ties_first(_, _)
\* Faulty variant: e goes before the elements of equal key
InsertByTime_ties_first(sorted, e) ==
    IF Len(sorted) = 0 THEN <<e>>
    ELSE IF ~StrLess(Head(sorted).time, e.time) THEN <<e>> \o sorted
    ELSE <<Head(sorted)>> \o InsertByTime_ties_first(Tail(sorted), e)

RECURSIVE InsertByTime(_, _)
\* Insertion of e after every element whose key is not greater
InsertByTime(sorted, e) ==
    IF Len(sorted) = 0 THEN <<e>>
    ELSE IF StrLess(e.time, Head(sorted).time) THEN <<e>> \o sorted
    ELSE <<Head(sorted)>> \o InsertByTime(Tail(sorted), e)

RECURSIVE SortFrom(_, _, _)
SortFrom(sorted, evs, i) ==
    IF i > Len(evs) THEN sorted
    ELSE SortFrom(InsertByTime(sorted, evs[i]), evs, i + 1)

\* events.sort(key=lambda x: x['time']), main.py:200: list.sort is stable
SortByTime(evs) == SortFrom(<<>>, evs, 1)

\* The body of the outer try block, main.py:119-203
FetchBody(up) ==
    CASE up.kind = "transport_error" -> Raise("ConnectError")
      [] up.kind = "status_error"    -> Raise("HTTPStatusError")
      [] up.kind = "bad_json"        -> Raise("JSONDecodeError")
      [] up.kind = "json_scalar"     -> Raise("TypeError")
      [] up.kind = "json_object"     -> Ok(SortByTime(Loop(up.keys, FALSE)))
      [] up.kind = "json_list"       -> Ok(SortByTime(Loop(up.data, TRUE)))

\* Faulty variant: no outer except, what the body raises reaches the caller
fetch_without_except(up) == FetchBody(up)

\* main.py:117-208: the outer except returns []
fetch_economic_calendar_data(up) ==
    LET r == FetchBody(up) IN IF r.ok THEN r ELSE Ok(<<>>)

---------------------------------------------------------------------------
(* format_with_ai, main.py:47-99 *)

CLOCK == "(clock)"
CHART == "(chart)"
TREND == "(trend)"

RECURSIVE JoinFrom(_, _, _)
JoinFrom(sep, parts, i) ==
    IF i > Len(parts) THEN ""
    ELSE IF i = Len(parts) THEN parts[i]
    ELSE parts[i] \o sep \o JoinFrom(sep, parts, i + 1)

\* sep.join(parts)
Join(sep, parts) == JoinFrom(sep, parts, 1)

\* The branch taken when there is no client, main.py:52-57
NoClientText(evs) ==
    Join("\n", [i \in DOMAIN evs |->
        CLOCK \o " " \o evs[i].time \o " | " \o evs[i].currency \o " | " \o evs[i].impact \o "\n"
        \o CHART \o " " \o evs[i].event \o "\n"
        \o TREND \o " Actual: " \o Get(evs[i], "actual", "N/A")
        \o " | Forecast: " \o Get(evs[i], "forecast", "N/A") \o "\n"])

\* Faulty variant: the except branch leaves the forecast out
ExceptText_no_forecast(evs) ==
    Join("\n", [i \in DOMAIN evs |->
        CLOCK \o " " \o evs[i].time \o " | " \o evs[i].currency \o " | " \o evs[i].impact \o "\n"
        \o CHART \o " " \o evs[i].event \o "\n"
        \o TREND \o " Actual: " \o Get(evs[i], "actual", "N/A") \o "\n"])

\* Faulty variant: the except branch heads its text with the request's number
ExceptText_numbered(evs) ==
    "#" \o ToString(calls) \o "\n" \o NoClientText(evs)

\* The except branch, main.py:94-99
ExceptText(evs) ==
    Join("\n", [i \in DOMAIN evs |->
        CLOCK \o " " \o evs[i].time \o " | " \o evs[i].currency \o " | " \o evs[i].impact \o "\n"
        \o CHART \o " " \o evs[i].event \o "\n"
        \o TREND \o " Actual: " \o Get(evs[i], "actual", "N/A")
        \o " | Forecast: " \o Get(evs[i], "forecast", "N/A") \o "\n"])

\* What response.choices[0].message.content may be: the summarizer samples
\* its text (temperature 0.7, main.py:85), so the same prompt may give
\* different texts.
SummaryTexts == {"summary A", "summary B"}

---------------------------------------------------------------------------
(* get_economic_calendar, main.py:210-231 *)

NoResponse == [code |-> 0]
Success(text) == [code |-> 200, status |-> "success", events |-> <<text>>]
HTTPException(detail) == [code |-> 500, detail |-> detail]

NoEventsText == "No economic events found for today."

---------------------------------------------------------------------------
(* Upstream payloads *)

\* A typical item of the feed
BaseItem ==
    [Country |-> "Germany", Date |-> "2024-01-01T14:30:00", Event |-> " Retail  Sales"]

Without(d, k) == [x \in DOMAIN d \ {k} |-> d[x]]
With(d, k, v) == (k :> v) @@ d

\* The items the upstream sends: the typical item, the items that differ from
\* it in one field (the field absent, or holding another value), and an item
\* of another country, time and headline
Items ==
    {BaseItem}
    \cup { Without(BaseItem, k) : k \in {"Country", "Date", "Event"} }
    \cup { With(BaseItem, "Country", v) : v \in {"", "Uk", "United States", "Brazil"} }
    \cup { With(BaseItem, "Date", v) :
             v \in {"2024-01-01 09:00", "2024-01-01T09:00:00", "2024-01-02T09:00:00"} }
    \cup { With(BaseItem, "Event", v) : v \in {"", "  ", "GDP"} }
    \cup { With(BaseItem, "Actual", "3%"), With(BaseItem, "Forecast", "2%") }
    \cup { [Country |-> "United States", Date |-> "2024-01-01T09:00:00", Event |-> "GDP"] }

SeqsUpTo(S, n) == UNION { [1..k -> S] : k \in 0..n }

Upstreams ==
    { [kind |-> k, data |-> <<>>, keys |-> <<>>] :
        k \in {"transport_error", "status_error", "bad_json", "json_scalar"} }
    \cup { [kind |-> "json_object", data |-> <<>>, keys |-> <<"message">>] }
    \cup { [kind |-> "json_list", data |-> d, keys |-> <<>>] :
             d \in SeqsUpTo(Items, MaxItems) }

---------------------------------------------------------------------------
(* The handler as a state machine *)

Init ==
    /\ client \in BOOLEAN
    /\ upstream \in Upstreams
    /\ today = "2024-01-01"
    /\ pc = "idle"
    /\ events = <<>>
    /\ path = "none"
    /\ response = NoResponse
    /\ prev = [response |-> NoResponse, path |-> "none"]
    /\ calls = 0
    /\ arg = <<>>
    /\ result = ""

\* A GET /calendar arrives: get_economic_calendar runs to the await of the
\* HTTP GET, main.py:211-214 and 119-133
Request ==
    /\ pc \in {"idle", "done"}
    /\ calls < MaxCalls
    /\ calls' = calls + 1
    /\ prev' = [response |-> response, path |-> path]
    /\ pc' = "await_http"
    /\ events' = <<>>
    /\ path' = "none"
    /\ response' = NoResponse
    /\ UNCHANGED <<client, upstream, today, arg, result>>

\* The HTTP GET completes: the rest of fetch_economic_calendar_data, then
\* get_economic_calendar up to its return or to the await of the summarizer,
\* main.py:134-208, 214-231, 48-57
FetchReturns ==
    /\ pc = "await_http"
    /\ \E r \in {fetch_economic_calendar_data(upstream)} :
           IF ~r.ok
           THEN /\ events' = <<>>
                /\ response' = HTTPException(r.exc)
                /\ path' = "none"
                /\ pc' = "done"
           ELSE /\ events' = r.val
                /\ IF Len(r.val) = 0
                   THEN /\ response' = Success(NoEventsText)
                        /\ path' = "empty"
                        /\ pc' = "done"
                   ELSE IF ~client
                   THEN /\ response' = Success(NoClientText(r.val))
                        /\ path' = "no_client"
                        /\ pc' = "done"
                   ELSE /\ response' = NoResponse
                        /\ path' = "none"
                        /\ pc' = "await_openai"
    /\ UNCHANGED <<client, upstream, today, prev, calls, arg, result>>

\* The summarizer answers, main.py:87-89 and 224-227
SummarizerReturns ==
    /\ pc = "await_openai"
    /\ \E text \in SummaryTexts :
        /\ response' = Success(text)
        /\ path' = "summarizer"
        /\ pc' = "done"
    /\ UNCHANGED <<client, upstream, today, events, prev, calls, arg, result>>

\* The summarizer call raises, main.py:90-99 and 224-227
SummarizerRaises ==
    /\ pc = "await_openai"
    /\ response' = Success(ExceptText(events))
    /\ path' = "except"
    /\ pc' = "done"
    /\ UNCHANGED <<client, upstream, today, events, prev, calls, arg, result>>

Next == Request \/ FetchReturns \/ SummarizerReturns \/ SummarizerRaises

Spec == Init /\ [][Next]_vars

---------------------------------------------------------------------------
(* determine_impact applied to one dict *)

Words == {"GDP", "gdp", "Corporate", "Interest", "Retail", "trade", "Consumer", "Speech"}

RECURSIVE Headlines(_)
\* The headlines of at most n words
Headlines(n) ==
    IF n = 0 THEN {""}
    ELSE LET shorter == Headlines(n - 1)
         IN  shorter \cup Words \cup { h \o " " \o w : h \in shorter \ {""}, w \in Words }

ImpactArgs == {<<>>} \cup { "Event" :> h : h \in Headlines(MaxWords) }

InitImpact ==
    /\ arg \in ImpactArgs
    /\ result = ""
    /\ client = FALSE
    /\ upstream = [kind |-> "json_list", data |-> <<>>, keys |-> <<>>]
    /\ today = "2024-01-01"
    /\ pc = "idle"
    /\ events = <<>>
    /\ path = "none"
    /\ response = NoResponse
    /\ prev = [response |-> NoResponse, path |-> "none"]
    /\ calls = 0

\* impact = determine_impact(event), main.py:172
Classify ==
    /\ result = ""
    /\ result' = determine_impact(arg)
    /\ UNCHANGED <<client, upstream, today, pc, events, path, response, prev, calls, arg>>

SpecImpact == InitImpact /\ [][Classify]_vars

---------------------------------------------------------------------------
(* What the properties below speak of *)

\* fetch_economic_calendar_data has returned in the current request
Fetched == pc \in {"await_openai", "done"}

\* An item the loop can turn into an event: it has 'Event' and a 'Date' in
\* the format "%Y-%m-%dT%H:%M:%S"
Parseable(item) ==
    /\ "Event" \in DOMAIN item
    /\ "Date" \in DOMAIN item
    /\ Strptime(item["Date"]).ok

ParseableItems(up) ==
    IF up.kind = "json_list" THEN SelectSeq(up.data, Parseable) ELSE <<>>

\* The event a parseable item stands for; its time is read off the date string
EventFor(item) ==
    [time     |-> SubSeq(item["Date"], 12, 16),
     currency |-> CurrencyOf(Get(item, "Country", "")),
     impact   |-> determine_impact(item),
     event    |-> Strip(ReplaceDoubleSpace(item["Event"])),
     actual   |-> Get(item, "Actual", "N/A"),
     forecast |-> Get(item, "Forecast", "N/A")]

\* The events of the parseable items, in upstream order
EventsOf(items) == [i \in DOMAIN items |-> EventFor(items[i])]

Count(seq, e) == Cardinality({ j \in DOMAIN seq : seq[j] = e })

IsPermutation(a, b) ==
    /\ Len(a) = Len(b)
    /\ \A j \in DOMAIN a : Count(a, a[j]) = Count(b, a[j])

\* Minutes since midnight of an "HH:MM" string
Minutes(t) == 60 * Num2(t, 1) + Num2(t, 4)

RuleBasedPath == path \in {"no_client", "except"}

---------------------------------------------------------------------------
(* C1 *)

UpstreamYieldsNothing ==
    \/ upstream.kind \in {"transport_error", "status_error", "bad_json",
                          "json_scalar", "json_object"}
    \/ /\ upstream.kind = "json_list"
       /\ \A i \in DOMAIN upstream.data : ~Parseable(upstream.data[i])

\* C1: whenever the upstream call fails, or its body holds no item that can be
\* parsed, fetch_economic_calendar_data returns the empty list and the request
\* ends with the "no events" success response; no request ends with a failure
\* response.
C1_UpstreamFailureGivesNoEvents ==
    /\ response.code # 500
    /\ (pc = "done" /\ UpstreamYieldsNothing)
         => (events = <<>> /\ response = Success(NoEventsText))

C1_Witness ==
    /\ pc = "done"
    /\ upstream.kind = "status_error"
    /\ response = Success(NoEventsText)

---------------------------------------------------------------------------
(* C2 *)

\* C2: for a list body, the events fetch_economic_calendar_data collected are
\* exactly the events of the parseable items, one per item, whatever the
\* positions of the items that cannot be parsed.
C2_BadItemsSkippedOthersKept ==
    (Fetched /\ upstream.kind = "json_list")
        => \E expected \in {EventsOf(ParseableItems(upstream))} :
              IsPermutation(events, expected)

C2_Witness ==
    /\ Fetched
    /\ upstream.kind = "json_list"
    /\ Len(upstream.data) = 2
    /\ ~Parseable(upstream.data[1])
    /\ Parseable(upstream.data[2])
    /\ Len(events) = 1

---------------------------------------------------------------------------
(* C3 *)

HighTerms == {"NFP", "CPI", "GDP", "PMI", "RATE", "EMPLOYMENT", "INTEREST"}
MediumTerms == {"RETAIL", "TRADE", "MANUFACTURING", "CONSUMER", "PRODUCTION"}

\* term occurs in s, letter case of s ignored
OccursIgnoringCase(term, s) ==
    \E i \in 1..(Len(s) - Len(term) + 1) :
        \A j \in 1..Len(term) : UpperChar(CharAt(s, i + j - 1)) = CharAt(term, j)

HasHigh(s) == \E t \in HighTerms : OccursIgnoringCase(t, s)
HasMedium(s) == \E t \in MediumTerms : OccursIgnoringCase(t, s)

Headline == Get(arg, "Event", "")

\* C3: determine_impact returns high for a headline holding a high-impact
\* term (also when it holds a medium-impact term too), medium for one holding
\* a medium-impact term and no high-impact term, and low for every other
\* headline, the empty and the absent one included.
C3_ImpactByKeyword ==
    result # "" =>
        result = IF HasHigh(Headline) THEN RED
                 ELSE IF HasMedium(Headline) THEN YELLOW
                 ELSE GREEN

C3_Witness ==
    /\ result = RED
    /\ HasHigh(Headline)
    /\ HasMedium(Headline)

---------------------------------------------------------------------------
(* C4 *)

\* C4: for a non-empty event list, when there is no client or the summarizer
\* call raised, the request ends with a success response whose text is the
\* rule-based rendering of that list.
C4_FallbackIsRuleBased ==
    (pc = "done" /\ Len(events) > 0 /\ (~client \/ path = "except"))
        => response = Success(NoClientText(events))

C4_Witness ==
    /\ pc = "done"
    /\ client
    /\ path = "except"
    /\ Len(events) = 2

---------------------------------------------------------------------------
(* C5 *)

\* C5: the returned list is in ascending order of time, and the events of one
\* time stand in the order of the upstream response.
C5_SortedByTimeStable ==
    Fetched =>
        /\ \A j, k \in DOMAIN events :
              j < k => Minutes(events[j].time) <= Minutes(events[k].time)
        /\ \E expected \in {EventsOf(ParseableItems(upstream))} :
              \A n \in DOMAIN events :
                  SelectSeq(events, LAMBDA e : e.time = events[n].time)
                    = SelectSeq(expected, LAMBDA e : e.time = events[n].time)

C5_Witness ==
    /\ Fetched
    /\ Len(events) = 2
    /\ events[1].time = events[2].time
    /\ events[1] # events[2]

---------------------------------------------------------------------------
(* C6 *)

RECURSIVE InsertByCurrency(_, _)
InsertByCurrency(sorted, e) ==
    IF Len(sorted) = 0 THEN <<e>>
    ELSE IF StrLess(e.currency, Head(sorted).currency) THEN <<e>> \o sorted
    ELSE <<Head(sorted)>> \o InsertByCurrency(Tail(sorted), e)

RECURSIVE GroupFrom(_, _, _)
GroupFrom(sorted, evs, i) ==
    IF i > Len(evs) THEN sorted
    ELSE GroupFrom(InsertByCurrency(sorted, evs[i]), evs, i + 1)

\* The list in currency groups, the groups in alphabetical order, each group
\* in the order it has in evs
GroupedByCurrency(evs) == GroupFrom(<<>>, evs, 1)

\* C6: the rule-based text lists the events in currency groups, the groups in
\* alphabetical order of the currency code and each group in ascending time.
C6_TextGroupedByCurrency ==
    (pc = "done" /\ RuleBasedPath)
        => response.events[1] = NoClientText(GroupedByCurrency(SortByTime(events)))

---------------------------------------------------------------------------
(* C7 *)

Triple(e) == <<e.time, e.currency, e.event>>

\* C7: the list handed to the formatter holds no two events with the same
\* (time, currency, headline).
C7_NoDuplicateTriple ==
    Fetched => \A j, k \in DOMAIN events : j # k => Triple(events[j]) # Triple(events[k])

---------------------------------------------------------------------------
(* C8 *)

ClosedCurrencies == {"USD", "EUR", "GBP", "JPY", "AUD", "CAD", "CHF", "NZD"}

IsUpperLetter(c) == \E i \in 1..26 : CharAt(UpperCase, i) = c

IsHHMM(t) ==
    /\ Len(t) = 5
    /\ \A i \in {1, 2, 4, 5} : IsDigit(CharAt(t, i))
    /\ CharAt(t, 3) = ":"
    /\ Num2(t, 1) \in 0..23
    /\ Num2(t, 4) \in 0..59

\* C8: every returned event has a non-empty headline, a time of the form
\* HH:MM, and a currency of the closed set or of three upper-case letters.
C8_EventsWellFormed ==
    Fetched =>
        \A j \in DOMAIN events :
            /\ events[j].event # ""
            /\ IsHHMM(events[j].time)
            /\ \/ events[j].currency \in ClosedCurrencies
               \/ /\ Len(events[j].currency) = 3
                  /\ \A i \in 1..3 : IsUpperLetter(CharAt(events[j].currency, i))

---------------------------------------------------------------------------
(* C9 *)

OnToday(item) == SubSeq(item["Date"], 1, 10) = today

\* C9: the returned list holds events of today's items only: no event stands
\* for an item whose 'Date' is another day.
C9_OnlyTodaysEvents ==
    Fetched =>
        \A j \in DOMAIN events :
            Count(events, events[j])
              <= Count(EventsOf(SelectSeq(ParseableItems(upstream), OnToday)), events[j])

---------------------------------------------------------------------------
(* C10 *)

TwoRequestsDone == pc = "done" /\ prev.response # NoResponse

============================================================================
